---- MODULE Spec2Model ----
(***************************************************************************)
(* Terminal session lifecycle of tcell's unix screen (tscreen_unix.go) and *)
(* its default terminal driver (driver.go).                                *)
(*                                                                         *)
(* Callers are goroutines that call engage, disengage or finalize on the   *)
(* one tScreen.  engage and disengage advance statement by statement (the  *)
(* two mode switches, the three statements that start the loops and the   *)
(* screen shutdown of disengage are one step each), so that the steps a    *)
(* caller takes without the lock interleave with the steps of the other    *)
(* callers and of the input and main loops.                                *)
(***************************************************************************)
EXTENDS Integers, Naturals, Sequences, FiniteSets, TLC

\* ---------------------------------------------------------------- bounds
\* Number of goroutines calling engage / disengage / finalize.
NumCallers == 2
\* Number of stop channels engage may allocate (engage cycles that get as
\* far as make(chan struct{})).
MaxChan == 2

Callers == 1..NumCallers
Chans   == 1..MaxChan
\* Widths and heights the window-size query may report: none, or some.
Dims    == {0, 80}

\* ------------------------------------------------------------- constants
Nil       == 0            \* a nil channel / an unheld lock
NoState   == "nil"        \* a nil *term.State
RawAttrs  == "raw"        \* what term.MakeRaw leaves in the termios
\* What the program starts from: the termios the TTY holds, and
\* t.mouseFlags and t.pasteEnabled as the application has set them.
StartChoices ==
    { [attrs |-> "cooked", mouseFlags |-> 1, pasteEnabled |-> FALSE],
      [attrs |-> "cbreak", mouseFlags |-> 0, pasteEnabled |-> TRUE] }

VARIABLES
    \* --- os / terminal
    attrs,        \* termios of the TTY
    origAttrs,    \* termios the TTY held when the program started
    nonblock,     \* TRUE: the TTY is in non-blocking read mode
    openIn,       \* an input handle on /dev/tty is open
    openOut,      \* an output handle on /dev/tty is open
    winchReg,     \* signal.Notify(d.winch, SIGWINCH) is in force
    \* --- tScreen fields
    initRet,      \* "none": initialize not called, "ok" / "err": its result
    tIn, tOut,    \* t.in, t.out are non-nil
    saved,        \* t.saved
    lock,         \* t.Mutex: Nil or the caller holding it
    stopQ,        \* t.stopQ: Nil or a channel
    wg,           \* t.wg counter
    cells,        \* size of t.cells, <<w, h>>
    mouseFlags, pasteEnabled,   \* t.mouseFlags, t.pasteEnabled
    mouseOn, pasteOn,           \* reporting modes switched on in the terminal
    \* --- channels and goroutines
    nextChan,     \* number of channels made so far
    closed,       \* set of closed channels
    cycles,       \* number of loop pairs started so far
    inLoop,       \* cycle -> [st, stop] of its input loop
    mainLoop,     \* cycle -> [st, stop] of its main loop
    \* --- callers
    pc,           \* caller -> next statement, "idle" or "panicked"
    myStop,       \* caller -> the local variable stopQ
    winsz,        \* caller -> what t.getWinSize() gave (w, h, err of line 38)
    ret,          \* what the last call gave, until the next call starts
    trace,        \* caller -> what the current (or last) call has done
    beep          \* what the last Beep did

vars == <<attrs, origAttrs, nonblock, openIn, openOut, winchReg, initRet, tIn, tOut,
          saved, lock, stopQ, wg, cells, mouseFlags, pasteEnabled, mouseOn,
          pasteOn, nextChan, closed, cycles, inLoop, mainLoop, pc,
          myStop, winsz, ret, trace, beep>>

\* Everything a caller's step may touch besides its own bookkeeping.
session == <<attrs, nonblock, winchReg, saved, stopQ, wg, cells, mouseOn,
             pasteOn, nextChan, closed, cycles, inLoop, mainLoop>>

\* What engage and disengage only read, or do not touch.
readonly == <<origAttrs, openIn, openOut, initRet, tIn, tOut, mouseFlags,
              pasteEnabled, beep>>
\* The same with the result of the window-size query, which only lines
\* 38-40 of engage touch.
osvars   == <<readonly, winsz>>

NoLoop == [st |-> "none", stop |-> Nil]
\* No window-size query is being looked at.
NoSize == [w |-> 0, h |-> 0, err |-> "none", fd |-> "none"]
\* Beep has not been called.
NoBeep == [bytes |-> <<>>, writes |-> 0, ok |-> FALSE, ret |-> "none"]

\* ------------------------------------------------------------------ Init
Init ==
    /\ \E c \in StartChoices :
        /\ attrs = c.attrs
        /\ origAttrs = c.attrs
        /\ mouseFlags = c.mouseFlags
        /\ pasteEnabled = c.pasteEnabled
    /\ nonblock = FALSE
    /\ openIn = FALSE /\ openOut = FALSE
    /\ winchReg = FALSE
    /\ initRet = "none"
    /\ tIn = FALSE /\ tOut = FALSE
    /\ saved = NoState
    /\ lock = Nil
    /\ stopQ = Nil
    /\ wg = 0
    /\ cells = <<0, 0>>
    /\ mouseOn = 0 /\ pasteOn = FALSE
    /\ nextChan = 0
    /\ closed = {}
    /\ cycles = 0
    /\ inLoop = [k \in Chans |-> NoLoop]
    /\ mainLoop = [k \in Chans |-> NoLoop]
    /\ pc = [t \in Callers |-> "idle"]
    /\ myStop = [t \in Callers |-> Nil]
    /\ winsz = [t \in Callers |-> NoSize]
    /\ ret = "none"
    /\ trace = [t \in Callers |-> <<>>]
    /\ beep = NoBeep

\* ------------------------------------------------------ defaultTermDriver
\* tscreen_unix.go:135-137  signal.Notify(d.winch, syscall.SIGWINCH):
\* whether the resize notification is registered afterwards.
defaultEngage(reg) == TRUE

\* (variant: the Disengage hook leaves the registration alone)
defaultDisengage_NoStop(reg) == reg

\* tscreen_unix.go:139-141  signal.Stop(d.winch)
defaultDisengage(reg) == FALSE

\* driver.go:35-49.  inOk / outOk: whether the two os.OpenFile calls succeed.
\* The named results are returned as they stand at each return statement.
DriverInit(inOk, outOk) ==
    IF ~inOk THEN
        [in |-> FALSE, out |-> FALSE, err |-> TRUE,
         openIn |-> FALSE, openOut |-> FALSE, reg |-> FALSE]
    ELSE IF ~outOk THEN
        [in |-> TRUE, out |-> FALSE, err |-> TRUE,
         openIn |-> TRUE, openOut |-> FALSE, reg |-> FALSE]
    ELSE
        [in |-> TRUE, out |-> TRUE, err |-> FALSE,
         openIn |-> TRUE, openOut |-> TRUE, reg |-> defaultEngage(FALSE)]

\* term.GetState: the termios snapshot, or nil with an error.
GetState(a, ok) == IF ok THEN a ELSE NoState

\* tscreen_unix.go:101-112.  The error of term.GetState is not returned.
initialize ==
    /\ initRet = "none"
    /\ \E inOk, outOk, gsOk \in BOOLEAN :
        LET d == DriverInit(inOk, outOk) IN
        /\ tIn' = d.in
        /\ tOut' = d.out
        /\ openIn' = d.openIn
        /\ openOut' = d.openOut
        /\ winchReg' = d.reg
        /\ IF d.err
             THEN /\ initRet' = "err"
                  /\ saved' = saved
             ELSE /\ initRet' = "ok"
                  /\ saved' = GetState(attrs, gsOk)
    /\ UNCHANGED <<attrs, origAttrs, nonblock, lock, stopQ, wg, cells, mouseFlags,
                   pasteEnabled, mouseOn, pasteOn, nextChan, closed, cycles,
                   inLoop, mainLoop, pc, myStop, winsz, ret, trace, beep>>

\* ------------------------------------------------------ caller bookkeeping
\* The statement after label l in a function body given as a list of labels;
\* after the last one the function has returned.
After(order, l) ==
    LET i == CHOOSE j \in 1..Len(order) : order[j] = l
    IN  IF i < Len(order) THEN order[i + 1] ELSE "idle"

\* Caller t executes the statement at label l of body `order`, noting ev.
\* When that was the last statement the function returns r.
Goes(t, order, l, ev, r) ==
    IF After(order, l) = "idle"
      THEN /\ pc' = [pc EXCEPT ![t] = "idle"]
           /\ ret' = r
           /\ trace' = [trace EXCEPT ![t] = <<>>]
           /\ myStop' = [myStop EXCEPT ![t] = Nil]
      ELSE /\ pc' = [pc EXCEPT ![t] = After(order, l)]
           /\ trace' = [trace EXCEPT ![t] = trace[t] \o ev]
           /\ UNCHANGED <<ret, myStop>>

\* Caller t returns r early from engage; the deferred t.Unlock() runs.
Returns(t, r) ==
    /\ pc' = [pc EXCEPT ![t] = "idle"]
    /\ ret' = r
    /\ trace' = [trace EXCEPT ![t] = <<>>]
    /\ myStop' = [myStop EXCEPT ![t] = Nil]
    /\ lock' = Nil

\* Caller t panics; nothing it holds is released.
Panics(t, why) ==
    /\ pc' = [pc EXCEPT ![t] = "panicked"]
    /\ ret' = why
    /\ trace' = [trace EXCEPT ![t] = trace[t] \o <<why>>]
    /\ UNCHANGED myStop

\* ---------------------------------------------------------------- engage
\* (variant: the loops are started before the entry strings are written)
EngageOrder_StartFirst ==
    <<"eCheck", "eMakeRaw", "eWinSize", "eResize", "eMakeStopQ", "eBlocking",
      "eModes", "eDriver", "eStart", "eTPuts", "eReturn">>

\* tscreen_unix.go:29-59, the statements after t.Lock() in program order.
EngageOrder ==
    <<"eCheck", "eMakeRaw", "eWinSize", "eResize", "eMakeStopQ", "eBlocking",
      "eModes", "eDriver", "eTPuts", "eStart", "eReturn">>

\* tscreen_unix.go:49-53
EntryCaps == <<"EnterCA", "EnterKeypad", "HideCursor", "EnableAcs", "Clear">>

\* (variant: the guard is missing)
AlreadyEngaged_Never(q) == FALSE

\* tscreen_unix.go:32  if t.stopQ != nil
AlreadyEngaged(q) == q # Nil

\* term.MakeRaw on termios a: e is the error of the underlying ioctl; old is
\* the *term.State it returns, the termios it found, or nil with an error.
MakeRawErrs == {"nil", "EIO"}
MakeRaw(a, e) ==
    [attrs |-> IF e = "nil" THEN RawAttrs ELSE a, err |-> e,
     old |-> IF e = "nil" THEN a ELSE NoState]

\* (variant: engage stores the state MakeRaw returns in t.saved)
engageSaved_Stored(s, old) == old

\* tscreen_unix.go:35  `_, err := term.MakeRaw(...)`: t.saved (s) after the
\* call, the state returned (old) being dropped.
engageSaved(s, old) == s

\* (variant: the error of MakeRaw is not looked at)
RawFailed_Ignored(e) == FALSE

\* tscreen_unix.go:35  err != nil
RawFailed(e) == e # "nil"

\* driver.go:10
ErrWinSizeUnused == "driver does not provide WinSize"

\* driver.go:54-56
DriverWinSize == [w |-> 0, h |-> 0, err |-> ErrWinSizeUnused]

\* tscreen_unix.go:126  term.GetSize(int(t.in.Fd())): the handle asked.
GetSizeHandle == "in"

\* tscreen_unix.go:122-127.  d is what t.driver.WinSize() answers, sys what
\* term.GetSize answers; fd is the handle term.GetSize was called on, if it
\* was called.
getWinSize(d, sys) ==
    IF d.err # ErrWinSizeUnused
      THEN [w |-> d.w, h |-> d.h, err |-> d.err, fd |-> "none"]
      ELSE [w |-> sys.w, h |-> sys.h, err |-> sys.err, fd |-> GetSizeHandle]

\* (variant: the error of the query is not looked at)
ShouldResize_ErrIgnored(r) == r.w # 0 /\ r.h # 0

\* tscreen_unix.go:38  err == nil && w != 0 && h != 0
ShouldResize(r) == r.err = "nil" /\ r.w # 0 /\ r.h # 0

\* (variant: one channel, made once, is used for every cycle)
MakeChan_Reused(n) == 1

\* tscreen_unix.go:41  make(chan struct{}): a channel no one holds yet.
MakeChan(n) == n + 1

\* t.nonBlocking(on): puts the TTY in non-blocking (on) or blocking mode.
NonBlocking(on) == on

\* t.enableMouse(f), t.enablePasting(on): reporting as the argument says.
EnableMouse(f) == f
EnablePasting(on) == on

\* tscreen_unix.go:30.  The cap on nextChan only bounds the model.
engage_Lock(t) ==
    /\ pc[t] = "idle"
    /\ initRet = "ok"
    /\ lock = Nil
    /\ stopQ # Nil \/ nextChan < MaxChan
    /\ lock' = t
    /\ pc' = [pc EXCEPT ![t] = EngageOrder[1]]
    /\ myStop' = [myStop EXCEPT ![t] = Nil]
    /\ ret' = "none"
    /\ trace' = [trace EXCEPT ![t] = <<"Lock">>]
    /\ UNCHANGED <<session, osvars>>

\* tscreen_unix.go:32-34
engage_Check(t) ==
    /\ pc[t] = "eCheck"
    /\ IF AlreadyEngaged(stopQ)
         THEN Returns(t, "already engaged")
         ELSE Goes(t, EngageOrder, "eCheck", <<"eCheck">>, "nil")
              /\ UNCHANGED lock
    /\ UNCHANGED <<session, osvars>>

\* tscreen_unix.go:35-37
engage_MakeRaw(t) ==
    /\ pc[t] = "eMakeRaw"
    /\ \E e \in MakeRawErrs :
        LET r == MakeRaw(attrs, e) IN
        /\ attrs' = r.attrs
        /\ saved' = engageSaved(saved, r.old)
        /\ IF RawFailed(r.err)
             THEN Returns(t, r.err)
             ELSE Goes(t, EngageOrder, "eMakeRaw",
                       <<IF r.err = "nil" THEN "MakeRaw:ok"
                                          ELSE "MakeRaw:err">>, "nil")
                  /\ UNCHANGED lock
    /\ UNCHANGED <<nonblock, winchReg, stopQ, wg, cells, mouseOn,
                   pasteOn, nextChan, closed, cycles, inLoop, mainLoop,
                   osvars>>

\* tscreen_unix.go:38  w, h, err := t.getWinSize()
engage_WinSize(t) ==
    /\ pc[t] = "eWinSize"
    /\ \E w, h \in Dims, e \in {"nil", "EIO"} :
        LET r == getWinSize(DriverWinSize, [w |-> w, h |-> h, err |-> e]) IN
        /\ winsz' = [winsz EXCEPT ![t] = r]
        /\ Goes(t, EngageOrder, "eWinSize",
                <<IF r.err = "nil" THEN "getWinSize:ok"
                                   ELSE "getWinSize:err">>, "nil")
    /\ UNCHANGED <<session, readonly, lock>>

\* tscreen_unix.go:38-40  the condition and t.cells.Resize(w, h)
engage_Resize(t) ==
    /\ pc[t] = "eResize"
    /\ cells' = IF ShouldResize(winsz[t]) THEN <<winsz[t].w, winsz[t].h>>
                                          ELSE cells
    /\ winsz' = [winsz EXCEPT ![t] = NoSize]
    /\ Goes(t, EngageOrder, "eResize", <<"eResize">>, "nil")
    /\ UNCHANGED <<attrs, nonblock, winchReg, saved, stopQ, wg, mouseOn,
                   pasteOn, nextChan, closed, cycles, inLoop, mainLoop,
                   readonly, lock>>

\* tscreen_unix.go:41-42
engage_MakeStopQ(t) ==
    /\ pc[t] = "eMakeStopQ"
    /\ nextChan' = nextChan + 1
    /\ stopQ' = MakeChan(nextChan)
    /\ pc' = [pc EXCEPT ![t] = After(EngageOrder, "eMakeStopQ")]
    /\ trace' = [trace EXCEPT ![t] = trace[t] \o <<"eMakeStopQ">>]
    /\ myStop' = [myStop EXCEPT ![t] = MakeChan(nextChan)]
    /\ UNCHANGED <<attrs, nonblock, winchReg, saved, wg, cells, mouseOn,
                   pasteOn, closed, cycles, inLoop, mainLoop, osvars, ret,
                   lock>>

\* tscreen_unix.go:43
engage_Blocking(t) ==
    /\ pc[t] = "eBlocking"
    /\ nonblock' = NonBlocking(FALSE)
    /\ Goes(t, EngageOrder, "eBlocking", <<"eBlocking">>, "nil")
    /\ UNCHANGED <<attrs, winchReg, saved, stopQ, wg, cells, mouseOn,
                   pasteOn, nextChan, closed, cycles, inLoop, mainLoop,
                   osvars, lock>>

\* tscreen_unix.go:44-45
engage_Modes(t) ==
    /\ pc[t] = "eModes"
    /\ mouseOn' = EnableMouse(mouseFlags)
    /\ pasteOn' = EnablePasting(pasteEnabled)
    /\ Goes(t, EngageOrder, "eModes", <<"eMouse", "ePaste">>, "nil")
    /\ UNCHANGED <<attrs, nonblock, winchReg, saved, stopQ, wg, cells,
                   nextChan, closed, cycles, inLoop, mainLoop, osvars, lock>>

\* tscreen_unix.go:46 and 135-137  signal.Notify(d.winch, SIGWINCH)
engage_Driver(t) ==
    /\ pc[t] = "eDriver"
    /\ winchReg' = defaultEngage(winchReg)
    /\ Goes(t, EngageOrder, "eDriver", <<"eDriver">>, "nil")
    /\ UNCHANGED <<attrs, nonblock, saved, stopQ, wg, cells, mouseOn,
                   pasteOn, nextChan, closed, cycles, inLoop, mainLoop,
                   osvars, lock>>

\* tscreen_unix.go:48-53
engage_TPuts(t) ==
    /\ pc[t] = "eTPuts"
    /\ Goes(t, EngageOrder, "eTPuts", EntryCaps, "nil")
    /\ UNCHANGED <<session, osvars, lock>>

\* tscreen_unix.go:55-57  t.wg.Add(2); go t.inputLoop(stopQ);
\* go t.mainLoop(stopQ)
engage_Start(t) ==
    /\ pc[t] = "eStart"
    /\ cycles < MaxChan
    /\ wg' = wg + 2
    /\ cycles' = cycles + 1
    /\ inLoop' = [inLoop EXCEPT ![cycles + 1] =
                     [st |-> "check", stop |-> myStop[t]]]
    /\ mainLoop' = [mainLoop EXCEPT ![cycles + 1] =
                       [st |-> "run", stop |-> myStop[t]]]
    /\ Goes(t, EngageOrder, "eStart", <<"eWgAdd", "eGoInput", "eGoMain">>,
            "nil")
    /\ UNCHANGED <<attrs, nonblock, winchReg, saved, stopQ, cells, mouseOn,
                   pasteOn, nextChan, closed, osvars, lock>>

\* tscreen_unix.go:58 and the deferred Unlock of line 31
engage_Return(t) ==
    /\ pc[t] = "eReturn"
    /\ Goes(t, EngageOrder, "eReturn", <<"Unlock">>, "nil")
    /\ lock' = Nil
    /\ UNCHANGED <<session, osvars>>

\* ------------------------------------------------- disengage / finalize
\* (variant: the stop channel is closed before the TTY is made non-blocking)
DisengageOrder_CloseFirst ==
    <<"dTakeStopQ", "dClose", "dNonBlocking", "dUnlock", "dWait", "dDriver",
      "dBlocking", "dScreen", "dRestore">>

\* (variant: the driver's Disengage hook is the last statement)
DisengageOrder_HookLast ==
    <<"dNonBlocking", "dTakeStopQ", "dClose", "dUnlock", "dWait", "dBlocking",
      "dScreen", "dRestore", "dDriver">>

\* tscreen_unix.go:65-96, the statements after t.Lock() in program order.
DisengageOrder ==
    <<"dNonBlocking", "dTakeStopQ", "dClose", "dUnlock", "dWait", "dDriver",
      "dBlocking", "dScreen", "dRestore">>

\* tscreen_unix.go:85-89
ExitCaps == <<"ShowCursor", "AttrOff", "Clear", "ExitCA", "ExitKeypad">>

\* close(c) with `cl` the closed channels: the new closed set, or a panic.
Close(c, cl) ==
    IF c = Nil THEN [panic |-> "close of nil channel", closed |-> cl]
    ELSE IF c \in cl THEN [panic |-> "close of closed channel", closed |-> cl]
    ELSE [panic |-> "none", closed |-> cl \cup {c}]

\* (variant: disengage does not wait for the loops)
WaitDone_NoWait(n) == TRUE

\* tscreen_unix.go:75  t.wg.Wait() returns once the counter is zero.
WaitDone(n) == n = 0

\* term.Restore(fd, s) on termios a: dereferences s.
Restore(a, s) ==
    IF s = NoState THEN [panic |-> "nil pointer dereference", attrs |-> a]
    ELSE [panic |-> "none", attrs |-> s]

\* tscreen_unix.go:65-67
disengage(t) ==
    /\ pc[t] = "idle"
    /\ initRet = "ok"
    /\ lock = Nil
    /\ lock' = t
    /\ pc' = [pc EXCEPT ![t] = DisengageOrder[1]]
    /\ myStop' = [myStop EXCEPT ![t] = Nil]
    /\ ret' = "none"
    /\ trace' = [trace EXCEPT ![t] = <<"Lock">>]
    /\ UNCHANGED <<session, osvars>>

\* tscreen_unix.go:116-119
finalize(t) == disengage(t)

\* tscreen_unix.go:68
disengage_NonBlocking(t) ==
    /\ pc[t] = "dNonBlocking"
    /\ nonblock' = NonBlocking(TRUE)
    /\ Goes(t, DisengageOrder, "dNonBlocking", <<"dNonBlocking">>, "returned")
    /\ UNCHANGED <<attrs, winchReg, saved, stopQ, wg, cells, mouseOn,
                   pasteOn, nextChan, closed, cycles, inLoop, mainLoop,
                   osvars, lock>>

\* tscreen_unix.go:69-70
disengage_TakeStopQ(t) ==
    /\ pc[t] = "dTakeStopQ"
    /\ stopQ' = Nil
    /\ pc' = [pc EXCEPT ![t] = After(DisengageOrder, "dTakeStopQ")]
    /\ trace' = [trace EXCEPT ![t] = trace[t] \o <<"dTakeStopQ">>]
    /\ myStop' = [myStop EXCEPT ![t] = stopQ]
    /\ UNCHANGED <<attrs, nonblock, winchReg, saved, wg, cells, mouseOn,
                   pasteOn, nextChan, closed, cycles, inLoop, mainLoop,
                   osvars, ret, lock>>

\* tscreen_unix.go:71
disengage_Close(t) ==
    /\ pc[t] = "dClose"
    /\ LET r == Close(myStop[t], closed) IN
        /\ closed' = r.closed
        /\ IF r.panic # "none"
             THEN Panics(t, r.panic)
             ELSE Goes(t, DisengageOrder, "dClose", <<"dClose">>, "returned")
    /\ UNCHANGED <<attrs, nonblock, winchReg, saved, stopQ, wg, cells,
                   mouseOn, pasteOn, nextChan, cycles, inLoop, mainLoop,
                   osvars, lock>>

\* tscreen_unix.go:72
disengage_Unlock(t) ==
    /\ pc[t] = "dUnlock"
    /\ lock' = IF lock = t THEN Nil ELSE lock
    /\ Goes(t, DisengageOrder, "dUnlock", <<"Unlock">>, "returned")
    /\ UNCHANGED <<session, osvars>>

\* tscreen_unix.go:75
disengage_Wait(t) ==
    /\ pc[t] = "dWait"
    /\ WaitDone(wg)
    /\ Goes(t, DisengageOrder, "dWait", <<"dWait">>, "returned")
    /\ UNCHANGED <<session, osvars, lock>>

\* tscreen_unix.go:77 and 139-141  signal.Stop(d.winch)
disengage_Driver(t) ==
    /\ pc[t] = "dDriver"
    /\ winchReg' = defaultDisengage(winchReg)
    /\ Goes(t, DisengageOrder, "dDriver", <<"dDriver">>, "returned")
    /\ UNCHANGED <<attrs, nonblock, saved, stopQ, wg, cells, mouseOn,
                   pasteOn, nextChan, closed, cycles, inLoop, mainLoop,
                   osvars, lock>>

\* tscreen_unix.go:80
disengage_Blocking(t) ==
    /\ pc[t] = "dBlocking"
    /\ nonblock' = NonBlocking(FALSE)
    /\ Goes(t, DisengageOrder, "dBlocking", <<"dBlocking">>, "returned")
    /\ UNCHANGED <<attrs, winchReg, saved, stopQ, wg, cells, mouseOn,
                   pasteOn, nextChan, closed, cycles, inLoop, mainLoop,
                   osvars, lock>>

\* tscreen_unix.go:82-91  shut down the screen and the special modes
disengage_Screen(t) ==
    /\ pc[t] = "dScreen"
    /\ cells' = <<0, 0>>
    /\ mouseOn' = EnableMouse(0)
    /\ pasteOn' = EnablePasting(FALSE)
    /\ Goes(t, DisengageOrder, "dScreen",
            <<"dResize">> \o ExitCaps \o <<"dMouse", "dPaste">>, "returned")
    /\ UNCHANGED <<attrs, nonblock, winchReg, saved, stopQ, wg, nextChan,
                   closed, cycles, inLoop, mainLoop, osvars, lock>>

\* tscreen_unix.go:94-96; the error of term.Restore is dropped.
disengage_Restore(t) ==
    /\ pc[t] = "dRestore"
    /\ LET r == Restore(attrs, saved) IN
        /\ attrs' = r.attrs
        /\ IF r.panic # "none"
             THEN Panics(t, r.panic)
             ELSE Goes(t, DisengageOrder, "dRestore", <<"dRestore">>,
                       "returned")
    /\ UNCHANGED <<nonblock, winchReg, saved, stopQ, wg, cells, mouseOn,
                   pasteOn, nextChan, closed, cycles, inLoop, mainLoop,
                   osvars, lock>>

\* ----------------------------------------------------------------- loops
\* The loop bodies live in tscreen.go.  The input loop polls its stop
\* channel, then reads the TTY; the main loop selects on its stop channel.
\* Each ends with t.wg.Done().
loopFrame == <<attrs, nonblock, winchReg, saved, stopQ, cells, mouseOn,
               pasteOn, nextChan, closed, cycles, osvars, pc, myStop, ret,
               trace, lock>>

\* select { case <-stopQ: return; default: } at the top of the input loop
inputLoop_Check(k) ==
    /\ inLoop[k].st = "check"
    /\ IF inLoop[k].stop \in closed
         THEN /\ inLoop' = [inLoop EXCEPT ![k].st = "done"]
              /\ wg' = wg - 1
         ELSE /\ inLoop' = [inLoop EXCEPT ![k].st = "read"]
              /\ wg' = wg
    /\ UNCHANGED <<loopFrame, mainLoop>>

\* the read returns at once because the TTY is non-blocking
inputLoop_ReadUnblocked(k) ==
    /\ inLoop[k].st = "read"
    /\ nonblock
    /\ inLoop' = [inLoop EXCEPT ![k].st = "check"]
    /\ UNCHANGED <<loopFrame, mainLoop, wg>>

\* the read returns bytes typed at the terminal
inputLoop_ReadData(k) ==
    /\ inLoop[k].st = "read"
    /\ inLoop' = [inLoop EXCEPT ![k].st = "check"]
    /\ UNCHANGED <<loopFrame, mainLoop, wg>>

\* the read fails: the loop exits
inputLoop_ReadError(k) ==
    /\ inLoop[k].st = "read"
    /\ inLoop' = [inLoop EXCEPT ![k].st = "done"]
    /\ wg' = wg - 1
    /\ UNCHANGED <<loopFrame, mainLoop>>

\* case <-stopQ: return in the main loop
mainLoop_Stop(k) ==
    /\ mainLoop[k].st = "run"
    /\ mainLoop[k].stop \in closed
    /\ mainLoop' = [mainLoop EXCEPT ![k].st = "done"]
    /\ wg' = wg - 1
    /\ UNCHANGED <<loopFrame, inLoop>>

\* ------------------------------------------------------------------ Beep
\* string(byte(b)): the UTF-8 encoding of the code point b, as a byte string.
Utf8(b) == IF b < 128 THEN <<b>> ELSE <<192 + (b \div 64), 128 + (b % 64)>>

\* tscreen_unix.go:131  byte(7)
BeepByte == 7

\* (variant: the bell is written twice)
BeepString_Twice == Utf8(BeepByte) \o Utf8(BeepByte)

\* tscreen_unix.go:131  string(byte(7))
BeepString == Utf8(BeepByte)

\* t.writeString(s): one write of s on the output stream; ok tells whether
\* the stream took it.  Nothing of the outcome is handed back.
writeString(s, ok) == [bytes |-> s, writes |-> 1, ok |-> ok]

\* tscreen_unix.go:130-133.  Before initialize t.out is nil and the write
\* can only fail.
Beep ==
    /\ \E ok \in (IF tOut THEN BOOLEAN ELSE {FALSE}) :
        LET w == writeString(BeepString, ok) IN
        beep' = [bytes |-> w.bytes, writes |-> w.writes, ok |-> w.ok,
                 ret |-> "nil"]
    /\ UNCHANGED <<attrs, origAttrs, nonblock, openIn, openOut, winchReg,
                   initRet, tIn, tOut, saved, lock, stopQ, wg, cells,
                   mouseFlags, pasteEnabled, mouseOn, pasteOn, nextChan,
                   closed, cycles, inLoop, mainLoop, pc, myStop, winsz, ret,
                   trace>>

\* ------------------------------------------------------------------ Next
\* A step of caller t in engage, disengage or finalize.
CallerStep(t) ==
    \/ engage_Lock(t)
    \/ engage_Check(t)
    \/ engage_MakeRaw(t)
    \/ engage_WinSize(t)
    \/ engage_Resize(t)
    \/ engage_MakeStopQ(t)
    \/ engage_Blocking(t)
    \/ engage_Modes(t)
    \/ engage_Driver(t)
    \/ engage_TPuts(t)
    \/ engage_Start(t)
    \/ engage_Return(t)
    \/ disengage(t)
    \/ finalize(t)
    \/ disengage_NonBlocking(t)
    \/ disengage_TakeStopQ(t)
    \/ disengage_Close(t)
    \/ disengage_Unlock(t)
    \/ disengage_Wait(t)
    \/ disengage_Driver(t)
    \/ disengage_Blocking(t)
    \/ disengage_Screen(t)
    \/ disengage_Restore(t)

\* A step of the input loop or of the main loop of cycle k.
LoopStep(k) ==
    \/ inputLoop_Check(k)
    \/ inputLoop_ReadUnblocked(k)
    \/ inputLoop_ReadData(k)
    \/ inputLoop_ReadError(k)
    \/ mainLoop_Stop(k)

Next ==
    \/ initialize
    \/ \E t \in Callers : CallerStep(t)
    \/ \E k \in Chans : LoopStep(k)

Spec == Init /\ [][Next]_vars

\* A caller inside engage or disengage runs on: every statement but the
\* call itself, which no one has to make.
CallerProgress(t) ==
    \/ engage_Check(t)
    \/ engage_MakeRaw(t)
    \/ engage_WinSize(t)
    \/ engage_Resize(t)
    \/ engage_MakeStopQ(t)
    \/ engage_Blocking(t)
    \/ engage_Modes(t)
    \/ engage_Driver(t)
    \/ engage_TPuts(t)
    \/ engage_Start(t)
    \/ engage_Return(t)
    \/ disengage_NonBlocking(t)
    \/ disengage_TakeStopQ(t)
    \/ disengage_Close(t)
    \/ disengage_Unlock(t)
    \/ disengage_Wait(t)
    \/ disengage_Driver(t)
    \/ disengage_Blocking(t)
    \/ disengage_Screen(t)
    \/ disengage_Restore(t)

\* The input loop runs on when it can without the terminal's help: input
\* arriving and read errors are not owed to it.
InputProgress(k) == inputLoop_Check(k) \/ inputLoop_ReadUnblocked(k)

\* The Go scheduler runs every goroutine that can run.
Fairness ==
    /\ \A t \in Callers : WF_vars(CallerProgress(t))
    /\ \A k \in Chans : WF_vars(InputProgress(k)) /\ WF_vars(mainLoop_Stop(k))

FairSpec == Init /\ [][Next]_vars /\ Fairness

\* One goroutine takes the session through its states while Beep is called
\* at any point in between.
NextBeep ==
    \/ initialize
    \/ CallerStep(CHOOSE t \in Callers : TRUE)
    \/ \E k \in Chans : LoopStep(k)
    \/ Beep

SpecBeep == Init /\ [][NextBeep]_vars

\* ================================================================ claims
Range(s) == {s[i] : i \in 1..Len(s)}

\* a occurs in s before b does
Precedes(s, a, b) ==
    \E j \in 1..Len(s) : s[j] = b /\ \E i \in 1..(j - 1) : s[i] = a

InEngage(t) == pc[t] \in Range(EngageOrder)
InDisengage(t) == pc[t] \in Range(DisengageOrder)

InputRunning(k) == inLoop[k].st \in {"check", "read"}
MainRunning(k) == mainLoop[k].st = "run"

\* C1: an engage that finds the session engaged returns "already engaged",
\* having done nothing but take and release the lock: the stop signal, the
\* terminal mode, the driver registration, the loops and the wait-group
\* count are what they were.
C1_AlreadyEngagedChangesNothing ==
    [][\A t \in Callers :
        (pc[t] = "eCheck" /\ pc'[t] # "eCheck" /\ stopQ # Nil)
          => /\ pc'[t] = "idle"
             /\ ret' = "already engaged"
             /\ trace[t] = <<"Lock">>
             /\ lock' = Nil
             /\ UNCHANGED session]_vars

C1_Witness ==
    /\ ret = "already engaged"
    /\ stopQ # Nil
    /\ \E k \in Chans : MainRunning(k)

\* C2: a disengage (or finalize) that finds the session disengaged ends
\* normally: it does not panic.
C2_DisengageWhileDisengagedCompletes ==
    \A t \in Callers :
        ("dTakeStopQ" \in Range(trace[t]) /\ myStop[t] = Nil)
          => pc[t] # "panicked"

\* The disengage that closed channel c has passed its join (or returned).
Joined(c) ==
    /\ c \in closed
    /\ \A t \in Callers :
        myStop[t] = c => \E j \in 1..Len(trace[t]) : trace[t][j] = "dWait"

\* C3: once the disengage of a cycle has passed its join, and so whenever
\* it has returned, neither loop of that cycle is running.
C3_DisengageReturnsAfterLoopsExit ==
    \A c \in Chans : Joined(c) =>
        \A k \in Chans :
            /\ inLoop[k].stop = c => ~InputRunning(k)
            /\ mainLoop[k].stop = c => ~MainRunning(k)

C3_Witness ==
    /\ ret = "returned"
    /\ \E k \in Chans :
        /\ inLoop[k].st = "done" /\ mainLoop[k].st = "done"
        /\ Joined(inLoop[k].stop)

\* C4: a disengage of an engaged session ends by returning, with the
\* termios the TTY had at the start and with the TTY in blocking mode.
C4_RoundTrip ==
    [][\A t \in Callers :
        (pc[t] = "dRestore" /\ pc'[t] # "dRestore" /\ myStop[t] # Nil)
          => /\ pc'[t] = "idle"
             /\ attrs' = origAttrs
             /\ ~nonblock']_vars

\* C5: every loop pair is started with a stop channel of its own, which no
\* other pair has and which is open when the session holds it; and no
\* channel is closed twice.
C5_FreshStopSignalPerCycle ==
    /\ stopQ # Nil => stopQ \notin closed
    /\ \A k \in Chans :
        /\ inLoop[k].st # "none" => inLoop[k].stop # Nil
        /\ mainLoop[k].st # "none" => mainLoop[k].stop = inLoop[k].stop
    /\ \A j, k \in Chans :
        (j # k /\ inLoop[j].st # "none" /\ inLoop[k].st # "none")
          => inLoop[j].stop # inLoop[k].stop
    /\ \A t \in Callers :
        pc[t] = "panicked" => "close of closed channel" \notin Range(trace[t])

C5_Witness ==
    /\ cycles >= 2
    /\ MainRunning(2) /\ InputRunning(2)
    /\ inLoop[1].stop \in closed
    /\ inLoop[2].stop # inLoop[1].stop
    /\ stopQ = inLoop[2].stop

\* What disengage does after the join.
TeardownEvents ==
    {"dDriver", "dBlocking", "dResize", "dMouse", "dPaste", "dRestore",
     "ShowCursor", "AttrOff", "Clear", "ExitCA", "ExitKeypad"}

\* C6: in every disengage the TTY is made non-blocking before the stop
\* channel is closed, the channel is closed before the join, and every
\* teardown step comes after the join.
C6_ShutdownOrder ==
    \A t \in Callers :
        InDisengage(t) \/ pc[t] = "panicked" =>
            LET s == trace[t] IN
            \A j \in 1..Len(s) :
                /\ s[j] = "dClose" => Precedes(s, "dNonBlocking", "dClose")
                /\ s[j] = "dWait" => Precedes(s, "dClose", "dWait")
                /\ s[j] \in TeardownEvents => Precedes(s, "dWait", s[j])

C6_Witness ==
    \E t \in Callers :
        /\ pc[t] = "dRestore"
        /\ myStop[t] # Nil
        /\ Range(ExitCaps) \subseteq Range(trace[t])

\* Statements that write the stop signal, the TTY mode, the cell buffer,
\* the reporting modes or the termios.
MutatingLabels ==
    {"eMakeRaw", "eWinSize", "eMakeStopQ", "eBlocking", "eModes",
     "dNonBlocking", "dTakeStopQ", "dBlocking", "dScreen", "dRestore"}

\* C7: a caller about to write session state holds the lock, and no engage
\* is in progress while a disengage has started and not returned.
C7_MutationsUnderLock ==
    /\ \A t \in Callers : pc[t] \in MutatingLabels => lock = t
    /\ \A t, u \in Callers : ~(InEngage(t) /\ InDisengage(u))

\* Between the join and the restoring of the termios.
InRestoreWindow(t) ==
    pc[t] \in {"dDriver", "dBlocking", "dScreen", "dRestore"}

\* C8: while a disengage is between its join and its restoring of the
\* termios no loop is running; and the exit capabilities are emitted after
\* the join.
C8_NoLoopInRestoreWindow ==
    \A t \in Callers :
        /\ InRestoreWindow(t) =>
              \A k \in Chans : ~InputRunning(k) /\ ~MainRunning(k)
        /\ InDisengage(t) =>
              \A j \in 1..Len(trace[t]) :
                  trace[t][j] \in Range(ExitCaps)
                    => Precedes(trace[t], "dWait", trace[t][j])

\* C9: an engage whose MakeRaw fails returns that error at once, with the
\* lock released and the session as it was (disengaged, nothing emitted, no
\* hook called, no loop started); no engage goes on after a failed MakeRaw.
C9_RawFailureLeavesDisengaged ==
    [][\A t \in Callers :
        /\ "MakeRaw:err" \notin Range(trace'[t])
        /\ (pc[t] = "eMakeRaw" /\ pc'[t] = "idle")
             => /\ ret' \in MakeRawErrs \ {"nil"}
                /\ trace[t] = <<"Lock", "eCheck">>
                /\ lock' = Nil
                /\ stopQ' = Nil
                /\ UNCHANGED session]_vars

C9_Witness ==
    /\ ret \in MakeRawErrs \ {"nil"}
    /\ stopQ = Nil
    /\ lock = Nil
    /\ cycles >= 1

\* C10: when initialize returns the error of the driver's Init, nothing is
\* left acquired: no handle is open, no resize registration is in force, no
\* termios is saved and the TTY mode is untouched.
C10_InitFailureLeavesNothing ==
    initRet = "err" =>
        /\ ~openIn /\ ~openOut
        /\ ~winchReg
        /\ saved = NoState
        /\ attrs = origAttrs

\* C11 (as stated): whenever the session is disengaged and no call is in
\* progress - between initialize and the first engage as well as after a
\* disengage - the resize notification is not registered.
C11_NotRegisteredWhileDisengaged ==
    (initRet = "ok" /\ stopQ = Nil /\ \A t \in Callers : pc[t] = "idle")
      => ~winchReg

\* C11 (amended): the resize notification is registered by the driver's
\* Init, which calls Engage, and stays registered until a disengage has
\* closed a stop channel; from then on it is not registered in any state
\* where the session is disengaged and no disengage is in progress.
C11_RegisteredFromInitToDisengage ==
    /\ (initRet = "ok" /\ closed = {}) => winchReg
    /\ (stopQ = Nil /\ closed # {} /\ \A t \in Callers : ~InDisengage(t))
         => ~winchReg

C11_Witness ==
    /\ ret = "returned"
    /\ stopQ = Nil /\ closed # {}
    /\ \A t \in Callers : pc[t] = "idle"
    /\ ~winchReg

\* C12: a window-size query that fails does not fail engage: engage goes on
\* to its next statement and, from there, can only return nil.  The cell
\* buffer is resized, to the size the query gave, exactly when the query
\* gave no error and a width and a height that are both non-zero; in every
\* other case it keeps the size it had, so a zero size is never applied.
C12_WinSizeFailureNotFatal ==
    [][\A t \in Callers :
        /\ (pc[t] = "eResize" /\ pc'[t] # "eResize")
             => /\ pc'[t] = "eMakeStopQ"
                /\ IF winsz[t].err = "nil" /\ winsz[t].w # 0 /\ winsz[t].h # 0
                     THEN cells' = <<winsz[t].w, winsz[t].h>>
                     ELSE cells' = cells
                /\ cells' # cells => (cells'[1] # 0 /\ cells'[2] # 0)
        /\ (InEngage(t) /\ pc'[t] = "idle"
               /\ \E j \in 1..Len(trace[t]) : trace[t][j] = "eResize")
             => ret' = "nil"]_vars

C12_Witness ==
    \E t \in Callers :
        /\ pc[t] = "eReturn"
        /\ \E j \in 1..Len(trace[t]) : trace[t][j] = "getWinSize:err"
        /\ cells = <<0, 0>>
        /\ wg >= 2

\* C13: whatever state the session is in, a call of Beep issues one write
\* on the output stream, of the one byte 7, and returns nil whether or not
\* the write went through.
C13_BeepWritesOneBell ==
    [][beep' # beep
        => /\ beep'.writes = 1
           /\ beep'.bytes = <<7>>
           /\ beep'.ret = "nil"
           /\ UNCHANGED <<session, pc, lock, ret>>]_vars

C13_Witness ==
    /\ beep.ret = "nil" /\ ~beep.ok
    /\ stopQ # Nil
    /\ \E k \in Chans : InputRunning(k)

\* What a successful engage is to do, in order.
EngageSteps ==
    <<"Lock", "eCheck", "MakeRaw:ok", "getWinSize", "eResize", "eMakeStopQ",
      "eBlocking", "eMouse", "ePaste", "eDriver", "EnterCA", "EnterKeypad",
      "HideCursor", "EnableAcs", "Clear", "eWgAdd", "eGoInput", "eGoMain">>

\* s without the outcome of the window-size query
Norm(s) ==
    [i \in 1..Len(s) |->
        IF s[i] \in {"getWinSize:ok", "getWinSize:err"} THEN "getWinSize"
                                                        ELSE s[i]]

IsPrefix(a, b) == Len(a) <= Len(b) /\ \A i \in 1..Len(a) : a[i] = b[i]

\* C14: what an engage has done so far is always an initial part of: raw
\* mode, window-size query, stop channel stored, TTY blocking, mouse and
\* paste as the flags say, driver Engage hook, the entry strings
\* enter-alternate-screen, enter-keypad, hide-cursor, enable-alt-charset,
\* clear-screen, and then the start of the two loops; an engage about to
\* return nil has done all of it.  The stop channel is stored when the
\* next step makes the TTY blocking, the modes are set from the flags, and
\* no loop of the cycle exists before the step that starts them.
C14_EngageOrder ==
    [][\A t \in Callers :
        (InEngage(t) /\ pc'[t] # pc[t] /\ pc'[t] # "idle")
          => /\ IsPrefix(Norm(trace'[t]), EngageSteps)
             /\ pc'[t] = "eReturn" => Norm(trace'[t]) = EngageSteps
             /\ pc[t] = "eBlocking" => (~nonblock' /\ myStop[t] # Nil)
             /\ pc[t] = "eModes"
                  => (mouseOn' = mouseFlags /\ pasteOn' = pasteEnabled)
             /\ pc[t] = "eDriver" => winchReg'
             /\ pc[t] = "eStart"
                  => /\ \A k \in Chans : inLoop[k].stop # myStop[t]
                                         /\ mainLoop[k].stop # myStop[t]
                     /\ \E k \in Chans : inLoop'[k].stop = myStop[t]
                                         /\ mainLoop'[k].stop = myStop[t]]_vars

C14_Witness ==
    \E t \in Callers :
        /\ pc[t] = "eReturn"
        /\ trace[t][Len(trace[t])] = "eGoMain"
        /\ \E k \in Chans : MainRunning(k) /\ mainLoop[k].stop = myStop[t]

\* What a disengage does after its join, the driver hook apart.
AfterHookEvents ==
    {"dBlocking", "dResize", "ShowCursor", "AttrOff", "Clear", "ExitCA",
     "ExitKeypad", "dMouse", "dPaste", "dRestore"}

\* C15 (as stated): the driver's Disengage hook is the last step of the
\* teardown: when it is called the exit strings have been written, and
\* once the saved attributes are about to be restored the hook is still to
\* come.
C15_DriverHookLast ==
    \A t \in Callers : InDisengage(t) =>
        /\ \A j \in 1..Len(trace[t]) :
              trace[t][j] = "dDriver"
                => \E i \in 1..(j - 1) : trace[t][i] = "ExitKeypad"
        /\ pc[t] = "dRestore"
              => \A j \in 1..Len(trace[t]) : trace[t][j] # "dDriver"

\* C15 (amended): the driver's Disengage hook is the first step of the
\* teardown: it is called right after the join, before the TTY is made
\* blocking again, before the exit strings are written, the modes switched
\* off and the cell buffer emptied, and before the saved attributes are
\* restored.
C15_DriverHookFirst ==
    \A t \in Callers : InDisengage(t) =>
        \A j \in 1..Len(trace[t]) :
            /\ trace[t][j] \in AfterHookEvents
                  => \E i \in 1..(j - 1) : trace[t][i] = "dDriver"
            /\ trace[t][j] = "dDriver" => trace[t][j - 1] = "dWait"

C15_Witness ==
    \E t \in Callers :
        /\ pc[t] = "dRestore"
        /\ trace[t][Len(trace[t])] = "dPaste"
        /\ \E j \in 1..Len(trace[t]) : trace[t][j] = "dDriver"
        /\ ~winchReg

\* C16: getWinSize hands back what the driver's WinSize gave, error
\* included, unless that error is ErrWinSizeUnused; in that case, and only
\* then, it asks the platform, and it asks on the output handle.  The
\* default driver always gives ErrWinSizeUnused.
C16_WinSizeFallbackOnOutput ==
    /\ DriverWinSize.err = ErrWinSizeUnused
    /\ \A t \in Callers : pc[t] = "eResize" =>
        IF DriverWinSize.err = ErrWinSizeUnused
          THEN winsz[t].fd = "out"
          ELSE /\ winsz[t].fd = "none"
               /\ winsz[t].w = DriverWinSize.w
               /\ winsz[t].h = DriverWinSize.h
               /\ winsz[t].err = DriverWinSize.err

\* C17: under fair scheduling of the callers and the loops, a disengage
\* that found the session engaged (it took a stop channel; initialize had
\* taken its snapshot of the terminal) returns in the end, whatever the
\* other callers do and whether or not the input loop had gone already.
C17_DisengageReturns ==
    \A t \in Callers :
        (pc[t] = "dClose" /\ myStop[t] # Nil /\ saved # NoState)
          ~> (pc[t] = "idle")

\* C18: at any time there is at most one input loop and at most one main
\* loop, and the wait-group counter is 0, 1 or 2: a loop pair is started
\* only when the loops of the earlier cycles have gone.
C18_AtMostOneLoopPair ==
    /\ wg \in 0..2
    /\ Cardinality({k \in Chans : InputRunning(k)}) <= 1
    /\ Cardinality({k \in Chans : MainRunning(k)}) <= 1

\* C19: t.saved is written by initialize and by nothing else: no step of
\* an engage or of a disengage changes it, and it holds either nothing or
\* the termios the TTY had at initialize.  So a disengage that restores
\* the terminal, in whatever cycle, leaves it with the termios of
\* initialize, not with a state taken later.
C19_SavedWrittenOnlyByInitialize ==
    [][/\ saved' # saved => (initRet = "none" /\ initRet' = "ok")
       /\ saved' \in {NoState, origAttrs}
       /\ \A t \in Callers :
            (pc[t] = "dRestore" /\ pc'[t] = "idle")
              => (attrs' = saved /\ attrs' = origAttrs)]_vars

C19_Witness ==
    /\ ret = "returned"
    /\ Cardinality(closed) >= 2
    /\ saved # NoState
    /\ attrs = saved
    /\ \A t \in Callers : pc[t] = "idle"


====
